---------------------------- MODULE Spec2Model ----------------------------
(***************************************************************************)
(* Analysis updates of dapy.filters.ensemble_kalman:                       *)
(*   EnsembleKalmanFilter.analysis_update                 (perturbed obs)  *)
(*   EnsembleSquareRootFilter.analysis_update             (square root)    *)
(*   WoodburyEnsembleSquareRootFilter.analysis_update     (Woodbury)       *)
(*   LocalEnsembleTransformKalmanFilter.local_analysis_update (localised)  *)
(*                                                                         *)
(* Arithmetic is exact: a number is a finite sum of rational multiples of  *)
(* square roots of square-free naturals, or one of numpy's non-finite      *)
(* values nan, inf, -inf.  Floating-point rounding is not modelled.        *)
(* Arrays are sequences (vectors) and sequences of rows (matrices).        *)
(***************************************************************************)
EXTENDS Integers, Sequences, FiniteSets, TLC

(***************************************************************************)
(* Bounds of the model.                                                    *)
(***************************************************************************)
\* analysis-update calls made in one run
MaxCalls == 3
\* largest spread parameter of a generated forecast ensemble
MaxSpread == 1
\* grid points of one localised time step
MaxGrid == 2

(***************************************************************************)
(* Rationals: <<n, d>> in lowest terms with d > 0.                         *)
(***************************************************************************)
Abs(i) == IF i < 0 THEN -i ELSE i

RECURSIVE GCD(_, _)
GCD(a, b) == IF b = 0 THEN a ELSE GCD(b, a % b)

Q(n, d) ==
    LET g == GCD(Abs(n), Abs(d))
        s == IF d < 0 THEN -1 ELSE 1
    IN  <<(s * n) \div g, (s * d) \div g>>

QAdd(p, q) == Q(p[1] * q[2] + q[1] * p[2], p[2] * q[2])
QMul(p, q) == Q(p[1] * q[1], p[2] * q[2])

RECURSIVE QSum(_)
QSum(s) == IF s = <<>> THEN <<0, 1>> ELSE QAdd(Head(s), QSum(Tail(s)))

(***************************************************************************)
(* Numbers (numpy float64, computed exactly).  A finite number is a        *)
(* function from square-free radicands r >= 1 to non-zero rational         *)
(* coefficients c, standing for the sum of c * sqrt(r); radicand 1 carries *)
(* the rational part and the empty function is 0.  A non-finite number has *)
(* the single key 0: <<0,0>> is nan, <<1,0>> is inf, <<-1,0>> is -inf.     *)
(***************************************************************************)
\* the function f with its values computed once (an aid to evaluation)
Array(f) == f @@ <<>>

Norm(f) == Array([r \in {k \in DOMAIN f : f[k][1] # 0} |-> f[r]])

Rat(n, d) == Norm(1 :> Q(n, d))
Num(n) == Rat(n, 1)
Zero == Num(0)
One == Num(1)
NaN == 0 :> <<0, 0>>
Inf == 0 :> <<1, 0>>
NInf == 0 :> <<-1, 0>>

IsFinite(x) == 0 \notin DOMAIN x
IsNaN(x) == (~IsFinite(x)) /\ x[0][1] = 0
IsRational(x) == IsFinite(x) /\ DOMAIN x \subseteq {1}
Coef(x, r) == IF r \in DOMAIN x THEN x[r] ELSE <<0, 1>>

\* -1, 0 or 1; of a finite number only when it has at most one term
Sign(x) ==
    IF ~IsFinite(x) THEN x[0][1]
    ELSE IF DOMAIN x = {} THEN 0
    ELSE LET r == CHOOSE k \in DOMAIN x : Cardinality(DOMAIN x) = 1
         IN  IF x[r][1] > 0 THEN 1 ELSE -1

Neg(x) == Array([r \in DOMAIN x |-> <<-x[r][1], x[r][2]>>])

Add(x, y) ==
    IF IsFinite(x) /\ IsFinite(y)
    THEN Norm([r \in (DOMAIN x) \cup (DOMAIN y) |-> QAdd(Coef(x, r), Coef(y, r))])
    ELSE IF IsNaN(x) \/ IsNaN(y) THEN NaN
    ELSE IF IsFinite(x) THEN y
    ELSE IF IsFinite(y) THEN x
    ELSE IF x = y THEN x ELSE NaN

Sub(x, y) == Add(x, Neg(y))

\* sqrt(r1) * sqrt(r2) = g * sqrt((r1 / g) * (r2 / g)) with g = gcd(r1, r2)
RadOf(r1, r2) == (r1 \div GCD(r1, r2)) * (r2 \div GCD(r1, r2))

RECURSIVE QSumSet(_, _, _)
QSumSet(x, y, pairs) ==
    IF pairs = {} THEN <<0, 1>>
    ELSE LET p == CHOOSE p \in pairs : TRUE
         IN  QAdd(QMul(QMul(x[p[1]], y[p[2]]), <<GCD(p[1], p[2]), 1>>),
                  QSumSet(x, y, pairs \ {p}))

Mul(x, y) ==
    IF IsFinite(x) /\ IsFinite(y)
    THEN IF DOMAIN x = {} \/ DOMAIN y = {} THEN Zero
         ELSE IF IsRational(x) /\ IsRational(y) THEN Norm(1 :> QMul(x[1], y[1]))
         ELSE LET pairs == (DOMAIN x) \X (DOMAIN y)
                  rads == {RadOf(p[1], p[2]) : p \in pairs}
              IN  Norm([r \in rads |->
                         QSumSet(x, y, {p \in pairs : RadOf(p[1], p[2]) = r})])
    ELSE IF IsNaN(x) \/ IsNaN(y) THEN NaN
    ELSE IF Sign(x) * Sign(y) = 0 THEN NaN
    ELSE IF Sign(x) * Sign(y) > 0 THEN Inf ELSE NInf

\* x / y for a rational or non-finite divisor y, with numpy's results for a
\* zero divisor: x / 0 is inf, -inf or nan (a RuntimeWarning, no exception)
Div(x, y) ==
    IF IsNaN(x) \/ IsNaN(y) THEN NaN
    ELSE IF ~IsFinite(y) THEN (IF IsFinite(x) THEN Zero ELSE NaN)
    ELSE IF DOMAIN y = {}
         THEN (IF Sign(x) > 0 THEN Inf ELSE IF Sign(x) < 0 THEN NInf ELSE NaN)
    ELSE Mul(x, Rat(y[1][2], y[1][1]))

\* largest s with s * s dividing n >= 1
SquarePart(n) ==
    LET squares == {s \in 1..n : s <= n \div s /\ n % (s * s) = 0}
    IN  CHOOSE s \in squares : \A t \in squares : t <= s

\* x ** 0.5 of a rational or non-finite x: sqrt(p / q) = s * sqrt(r) / q where
\* p * q = s * s * r with r square-free; nan for a negative x
Sqrt(x) ==
    IF ~IsFinite(x) THEN (IF x = Inf THEN Inf ELSE NaN)
    ELSE IF DOMAIN x = {} THEN Zero
    ELSE IF x[1][1] < 0 THEN NaN
    ELSE LET s == SquarePart(x[1][1]) * SquarePart(x[1][2])
         IN  ((x[1][1] * x[1][2]) \div (s * s)) :> Q(s, x[1][2])

\* comparisons of rational or non-finite numbers; false when either is nan
Gt(x, y) ==
    IF IsNaN(x) \/ IsNaN(y) THEN FALSE
    ELSE IF ~IsFinite(x) THEN x = Inf /\ y # Inf
    ELSE IF ~IsFinite(y) THEN y = NInf
    ELSE Coef(x, 1)[1] * Coef(y, 1)[2] > Coef(y, 1)[1] * Coef(x, 1)[2]

Ge(x, y) == (~IsNaN(x)) /\ (~IsNaN(y)) /\ ~Gt(y, x)

(***************************************************************************)
(* numpy arrays.  A vector is a sequence of numbers, a matrix a sequence   *)
(* of rows; an ensemble of N particles is a matrix with N >= 1 rows.       *)
(***************************************************************************)
RECURSIVE Sum(_)
Sum(v) == IF v = <<>> THEN Zero ELSE Add(Head(v), Sum(Tail(v)))

NRows(m) == Len(m)
NCols(m) == Len(m[1])
Column(m, j) == Array([i \in 1..Len(m) |-> m[i][j]])

\* m.mean(0) and m.T
Mean0(m) == Array([j \in 1..NCols(m) |-> Div(Sum(Column(m, j)), Num(NRows(m)))])
Transpose(m) == Array([j \in 1..NCols(m) |-> Column(m, j)])

\* elementwise operations on arrays of one shape, and with a scalar
VecAdd(u, v) == Array([j \in 1..Len(u) |-> Add(u[j], v[j])])
VecSub(u, v) == Array([j \in 1..Len(u) |-> Sub(u[j], v[j])])
VecMul(u, v) == Array([j \in 1..Len(u) |-> Mul(u[j], v[j])])
VecScale(a, v) == Array([j \in 1..Len(v) |-> Mul(a, v[j])])
VecDivScalar(v, x) == Array([j \in 1..Len(v) |-> Div(v[j], x)])
MatAdd(a, b) == Array([i \in 1..Len(a) |-> VecAdd(a[i], b[i])])
MatSub(a, b) == Array([i \in 1..Len(a) |-> VecSub(a[i], b[i])])
MatScale(x, a) == Array([i \in 1..Len(a) |-> VecScale(x, a[i])])
MatDivScalar(a, x) == Array([i \in 1..Len(a) |-> Array([j \in 1..Len(a[i]) |-> Div(a[i][j], x)])])

\* matrix (op) vector, the vector broadcast along the rows (over the last axis)
RowsAdd(m, v) == Array([i \in 1..Len(m) |-> VecAdd(m[i], v)])
RowsSub(m, v) == Array([i \in 1..Len(m) |-> VecSub(m[i], v)])
RowsMul(m, v) == Array([i \in 1..Len(m) |-> VecMul(m[i], v)])
RowsDiv(m, v) == Array([i \in 1..Len(m) |-> Array([j \in 1..Len(v) |-> Div(m[i][j], v[j])])])

\* a.dot(b) for vectors, matrix.vector, vector.matrix and matrix.matrix
Dot(u, v) == Sum([j \in 1..Len(u) |-> Mul(u[j], v[j])])
MatVec(m, v) == Array([i \in 1..Len(m) |-> Dot(m[i], v)])
VecMat(v, m) == Array([j \in 1..NCols(m) |-> Dot(v, Column(m, j))])
MatMul(a, b) == Array([i \in 1..Len(a) |-> VecMat(a[i], b)])
\* a.dot(a.T), which needs no transpose of an array without columns
Gram(a) == Array([i \in 1..Len(a) |-> Array([k \in 1..Len(a) |-> Dot(a[i], a[k])])])

\* np.eye(n), np.ones(n)
Eye(n) == Array([i \in 1..n |-> Array([j \in 1..n |-> IF i = j THEN One ELSE Zero])])
Zeros(n, m) == Array([i \in 1..n |-> Array([j \in 1..m |-> Zero])])

Trace(m) == Sum([i \in 1..Len(m) |-> m[i][i]])
AllFinite(m) == \A i \in 1..Len(m) : \A j \in 1..Len(m[i]) : IsFinite(m[i][j])
AllRational(m) == \A i \in 1..Len(m) : \A j \in 1..Len(m[i]) : IsRational(m[i][j])
IsSymmetric(m) == \A i \in 1..Len(m) : \A j \in 1..Len(m) : m[i][j] = m[j][i]

\* determinant by cofactor expansion along the first row, and the inverse of
\* a non-singular matrix as adjugate / determinant
DropAt(s, k) == Array([i \in 1..(Len(s) - 1) |-> IF i < k THEN s[i] ELSE s[i + 1]])
Minor(m, r, c) == Array([i \in 1..(Len(m) - 1) |-> DropAt(DropAt(m, r)[i], c)])

RECURSIVE Det(_)
Det(m) ==
    IF Len(m) = 1 THEN m[1][1]
    ELSE Sum([j \in 1..Len(m) |->
              Mul(Mul(IF j % 2 = 1 THEN One ELSE Num(-1), m[1][j]),
                  Det(Minor(m, 1, j)))])

Inverse(m) ==
    LET det == Det(m)
        n == Len(m)
        cof(i, j) == Mul(IF (i + j) % 2 = 0 THEN One ELSE Num(-1),
                         IF n = 1 THEN One ELSE Det(Minor(m, i, j)))
    IN  Array([i \in 1..n |-> Array([j \in 1..n |-> Div(cof(j, i), det)])])

\* every 2 x 2 minor is 0
RankAtMostOne(m) ==
    \A i \in 1..Len(m) : \A k \in 1..Len(m) :
        \A j \in 1..NCols(m) : \A l \in 1..NCols(m) :
            Mul(m[i][j], m[k][l]) = Mul(m[i][l], m[k][j])

(***************************************************************************)
(* numpy.linalg, as far as the updates use it.  The matrices handed to the *)
(* symmetric eigendecomposition, the singular value decomposition and the  *)
(* pseudo-inverse have rank at most one for every ensemble of the model    *)
(* (deviations of at most two particles, or one observed dimension), which *)
(* makes their eigenvalues rational.  An eigendecomposition is kept as its *)
(* eigenspaces: a sequence of groups [val, mult, proj] with the eigenvalue,*)
(* its multiplicity and the orthogonal projector eigvec.dot(eigvec.T) of   *)
(* its eigenvectors, which is what the updates use the eigenvectors for.   *)
(***************************************************************************)
Group(val, mult, proj) == [val |-> val, mult |-> mult, proj |-> proj]

\* the eigenspaces of a symmetric matrix of rank <= 1, the non-zero one first
\* when nonzero_first; a 1 x 1 matrix is its own eigenvalue, nan included
Eigenspaces(m, nonzero_first) ==
    LET n == Len(m)
        t == Trace(m)
    IN  IF n = 1 THEN <<Group(m[1][1], 1, Eye(1))>>
        ELSE IF t = Zero THEN <<Group(Zero, n, Eye(n))>>
        ELSE LET top == Group(t, 1, MatDivScalar(m, t))
                 null == Group(Zero, n - 1, MatSub(Eye(n), MatDivScalar(m, t)))
             IN  IF nonzero_first THEN <<top, null>> ELSE <<null, top>>

Decomposable(m) ==
    \/ Len(m) = 1
    \/ AllRational(m) /\ IsSymmetric(m) /\ RankAtMostOne(m)

\* eigval, eigvec = la.eigh(m): eigenvalues in ascending order
eigh(m) ==
    IF Decomposable(m)
    THEN Eigenspaces(m, Len(m) > 1 /\ Gt(Zero, Trace(m)))
    ELSE <<>>

\* the array of eigenvalues, each repeated by its multiplicity
RECURSIVE Eigenvalues(_)
Eigenvalues(groups) ==
    IF groups = <<>> THEN <<>>
    ELSE [i \in 1..Head(groups).mult |-> Head(groups).val]
         \o Eigenvalues(Tail(groups))

\* (eigvec * f).dot(eigvec.T), where f[g] scales the eigenvectors of group g
RECURSIVE Reconstruct(_, _)
Reconstruct(groups, f) ==
    IF Len(groups) = 1 THEN MatScale(f[1], groups[1].proj)
    ELSE MatAdd(MatScale(f[1], groups[1].proj),
                Reconstruct(Tail(groups), Tail(f)))

\* (eigvec / eigval).dot(eigvec.T) with eigval, eigvec = la.eigh(c): the
\* inverse of a non-singular symmetric c.  For c = 0 the eigenvectors are the
\* identity and every eigenvalue is 0, so the quotient is inf on the diagonal
\* and nan (0 / 0) off it.
eigh_reciprocal(c) ==
    IF Det(c) # Zero THEN Inverse(c)
    ELSE IF c = Zeros(Len(c), Len(c))
         THEN MatMul(RowsDiv(Eye(Len(c)), [j \in 1..Len(c) |-> Zero]),
                     Transpose(Eye(Len(c))))
    ELSE <<>>

\* la.solve(a, b): raises LinAlgError("Singular matrix") for a singular a
solve_raises(a) == Det(a) = Zero
solve(a, b) == MatMul(Inverse(a), b)

\* la.pinv(a) of a matrix of rank <= 1: a.T / (sum of squares), 0 for a = 0
FrobeniusSq(a) == Trace(Gram(a))
pinv(a) ==
    IF ~RankAtMostOne(a) THEN <<>>
    ELSE IF FrobeniusSq(a) = Zero THEN Zeros(NCols(a), NRows(a))
    ELSE MatDivScalar(Transpose(a), FrobeniusSq(a))

\* u, s, vh = la.svd(a) of a matrix of rank <= 1 with N rows: the left
\* singular vectors are the eigenvectors of a.dot(a.T) in descending order of
\* eigenvalue and the singular values the roots of its eigenvalues; each
\* group carries its singular value as val (0 for the columns of u beyond
\* the rank, which span the rest of the space).
svd(a) ==
    LET spaces == Eigenspaces(Gram(a), TRUE)
    IN  IF Decomposable(Gram(a))
        THEN [g \in 1..Len(spaces) |->
                Group(Sqrt(spaces[g].val), spaces[g].mult, spaces[g].proj)]
        ELSE <<>>

(***************************************************************************)
(* A call in progress is the frame of the method: a record of self, of the *)
(* arguments and of the local variables assigned so far, under their names *)
(* in the source, with exc the exception raised ("none" while the call     *)
(* runs) and what the call has done on the way: how often it invoked the   *)
(* observation function or sampler, how many numpy.linalg routines it ran, *)
(* and the warnings it issued through warnings.warn.  Each statement of a  *)
(* method is an operator from the frame before it to the frame after it; a *)
(* statement reached after an exception leaves the frame as it is.         *)
(***************************************************************************)
Frame(self, arguments) ==
    [self |-> self, parameters |-> DOMAIN arguments, exc |-> "none",
     observations |-> 0, linalg |-> 0, warned |-> <<>>] @@ arguments

Then(f, after) == IF f.exc = "none" THEN after ELSE f
Assign(f, name, value) == (name :> value) @@ f
Raise(f, exc) == [f EXCEPT !["exc"] = exc]
Observed(f) == [f EXCEPT !["observations"] = @ + 1]
Linalg(f) == [f EXCEPT !["linalg"] = @ + 1]
Local(f, name) == IF name \in DOMAIN f THEN f[name] ELSE <<>>

\* The statements of a method are applied one after the other, each to the
\* frame the statement before it has left: The({s2(f1) : f1 \in {s1(f0)}}) is
\* s2 applied to what s1 leaves of f0.
The(frames) == CHOOSE f \in frames : TRUE

\* numpy broadcasting of two vectors in an elementwise operation
Broadcastable(u, v) == Len(u) = Len(v) \/ Len(u) = 1 \/ Len(v) = 1
Stretch(v, n) == IF Len(v) = n THEN v ELSE Array([j \in 1..n |-> v[1]])
BroadcastLen(u, v) == IF Len(u) = 1 THEN Len(v) ELSE Len(u)
BroadcastSub(u, v) ==
    VecSub(Stretch(u, BroadcastLen(u, v)), Stretch(v, BroadcastLen(u, v)))

\* np.clip(x, -np.inf, 1.) and abs(x) of one element
Clip(x) == IF Gt(x, One) THEN One ELSE x
AbsNum(x) == IF Gt(Zero, x) THEN Neg(x) ELSE x

\* np.any(eigval > 1.) and eigval.max()
AnyAboveOne(groups) == \E g \in 1..Len(groups) : Gt(groups[g].val, One)
MaxEigenvalue(groups) ==
    groups[CHOOSE g \in 1..Len(groups) :
               \A h \in 1..Len(groups) : ~Gt(groups[h].val, groups[g].val)].val

Warning(max) ==
    [message |-> "Eigenvalue(s) outside unit circle, max: {0}", max |-> max]

\* (dz**2).mean(0)**0.5 and z.std(0): each entry is kept as the root of its
\* exact radicand, the mean of squares
RootOf(x) == [root_of |-> x]
RootMeanSquare(dz) ==
    [j \in 1..NCols(dz) |->
        RootOf(Div(Sum([i \in 1..Len(dz) |-> Mul(dz[i][j], dz[i][j])]),
                   Num(Len(dz))))]
Std0(z) == RootMeanSquare(RowsSub(z, Mean0(z)))

(***************************************************************************)
(* The model-supplied collaborators.  observation_func is a deterministic  *)
(* linear operator onto dim_x observed dimensions (observed dimension i is *)
(* state dimension 1 + (i - 1) mod D_z); observation_sampler adds the      *)
(* noise its random number generator draws.                                *)
(***************************************************************************)
observation_func(dim_x, z, time_index) ==
    [n \in 1..Len(z) |-> [i \in 1..dim_x |-> z[n][1 + ((i - 1) % NCols(z))]]]

observation_sampler(dim_x, z, time_index, draw) ==
    [n \in 1..Len(z) |->
        [i \in 1..dim_x |->
            Add(observation_func(dim_x, z, time_index)[n][i],
                Num(draw * ((n + i) % 2)))]]

(***************************************************************************)
(* Filter objects: one record of attributes per class, <<>> for an         *)
(* attribute the class does not have.                                      *)
(***************************************************************************)
Object(cls, observe, noise_matrix, noise_covar, noise_preci, is_dense, warn, inflation_factor) ==
    [cls |-> cls, observe |-> observe,
     obser_noise_matrix |-> noise_matrix, obser_noise_covar |-> noise_covar,
     obser_noise_preci |-> noise_preci,
     obser_noise_preci_is_dense |-> is_dense,
     warn |-> warn, inflation_factor |-> inflation_factor]

\* EnsembleKalmanFilter.__init__
EnsembleKalmanFilter(observation_sampler_dim) ==
    Object("EnsembleKalmanFilter", observation_sampler_dim,
           <<>>, <<>>, <<>>, <<>>, <<>>, <<>>)

\* EnsembleSquareRootFilter.__init__
EnsembleSquareRootFilter(observation_func_dim, obser_noise_matrix, warn) ==
    Object("EnsembleSquareRootFilter", observation_func_dim,
           obser_noise_matrix,
           MatMul(obser_noise_matrix, Transpose(obser_noise_matrix)),
           <<>>, <<>>, warn, <<>>)

\* WoodburyEnsembleSquareRootFilter.__init__; a precision is the record
\* [ndim, a] of an ndarray of 2 or 1 dimensions or of a scalar (ndim 0)
WoodburyEnsembleSquareRootFilter(observation_func_dim, obser_noise_preci, warn) ==
    Object("WoodburyEnsembleSquareRootFilter", observation_func_dim,
           <<>>, <<>>, obser_noise_preci, obser_noise_preci.ndim = 2,
           warn, <<>>)

\* LocalEnsembleTransformKalmanFilter.__init__
LocalEnsembleTransformKalmanFilter(observation_func_dim, inflation_factor) ==
    Object("LocalEnsembleTransformKalmanFilter", observation_func_dim,
           <<>>, <<>>, <<>>, <<>>, <<>>, inflation_factor)

(***************************************************************************)
(* What the updates leave of the filter object and of their argument       *)
(* arrays: no statement assigns to an attribute of self or into an         *)
(* argument array (z_forecast - z_mean_forecast and the like build new     *)
(* arrays), so both are as they were.                                      *)
(***************************************************************************)
\* a faulty variant: the update scales the noise covariance and the inflation
\* factor of the object in place
ObjectAfterInPlaceScaling(self, n_particles) ==
    [self EXCEPT !.obser_noise_covar =
                     IF @ = <<>> THEN @ ELSE MatScale(Num(n_particles + 1), @),
                 !.inflation_factor =
                     IF @ = <<>> THEN @ ELSE Mul(Num(n_particles + 1), @)]

ObjectAfter(self, n_particles) == self

\* a faulty variant: the update centres z_forecast in place (z_forecast -= ...)
ArgumentsAfterInPlaceCentering(args, dz_forecast) ==
    [args EXCEPT !.z_forecast = dz_forecast]

ArgumentsAfter(args, dz_forecast) == args

(***************************************************************************)
(* What one call leaves behind: the exception raised ("none" when the call *)
(* returns), the returned value, the filter object and the arguments as    *)
(* they are after the call, and from the frame the tallies, the warnings,  *)
(* the eigenvalues of m_matrix, the quantity under each square root of the *)
(* matrix square root, and the matrix handed to la.solve.  What the call   *)
(* did not get to compute is <<>>.                                         *)
(***************************************************************************)
Outcome(f) ==
    [exc |-> f.exc,
     ret |-> Local(f, "ret"),
     self |-> ObjectAfter(f.self, NRows(f.z_forecast)),
     args |-> ArgumentsAfter([name \in f.parameters |-> f[name]],
                             f.dz_forecast),
     observations |-> f.observations,
     linalg |-> f.linalg,
     warned |-> f.warned,
     eigval_m |-> IF "eig_m" \in DOMAIN f THEN Eigenvalues(f.eig_m) ELSE <<>>,
     radicand |-> Local(f, "radicand"),
     d_matrix |-> Local(f, "d_matrix")]

(***************************************************************************)
(* EnsembleKalmanFilter.analysis_update; draw is what the sampler's random *)
(* number generator yields in this call.                                   *)
(***************************************************************************)
\* x_forecast = self.observation_sampler(z_forecast, time_index)
enkf_x_forecast(f, draw) ==
    Observed(Assign(f, "x_forecast",
                    observation_sampler(f.self.observe, f.z_forecast,
                                        f.time_index, draw)))

\* dz_forecast = z_forecast - z_forecast.mean(0)
enkf_dz_forecast(f) ==
    Then(f, Assign(f, "dz_forecast",
                   RowsSub(f.z_forecast, Mean0(f.z_forecast))))

\* dx_forecast = x_forecast - x_forecast.mean(0)
enkf_dx_forecast(f) ==
    Then(f, Assign(f, "dx_forecast",
                   RowsSub(f.x_forecast, Mean0(f.x_forecast))))

\* dx_error = x_observed - x_forecast, x_observed broadcast along the rows
enkf_dx_error(f) ==
    Then(f, IF ~Broadcastable(f.x_observed, f.x_forecast[1])
            THEN Raise(f, "ValueError")
            ELSE Assign(f, "dx_error",
                        Array([n \in 1..Len(f.x_forecast) |->
                            BroadcastSub(f.x_observed, f.x_forecast[n])])))

\* la.pinv(dx_forecast)
enkf_pinv(f) == Then(f, Linalg(Assign(f, "pinv", pinv(f.dx_forecast))))

\* z_analysis = z_forecast + (dx_error.dot(pinv)).dot(dz_forecast)
enkf_z_analysis(f) ==
    Then(f, IF NCols(f.dx_error) # NRows(f.pinv)
            THEN Raise(f, "ValueError")
            ELSE Assign(f, "z_analysis",
                        MatAdd(f.z_forecast,
                               MatMul(MatMul(f.dx_error, f.pinv),
                                      f.dz_forecast))))

\* return z_analysis, z_analysis.mean(0), z_analysis.std(0)
enkf_return(f) ==
    Then(f, Assign(f, "ret", <<f.z_analysis, Mean0(f.z_analysis),
                               Std0(f.z_analysis)>>))

enkf_analysis_update(self, z_forecast, x_observed, time_index, draw) ==
    The({Outcome(f7) :
         f7 \in {enkf_return(f6) :
         f6 \in {enkf_z_analysis(f5) :
         f5 \in {enkf_pinv(f4) :
         f4 \in {enkf_dx_error(f3) :
         f3 \in {enkf_dx_forecast(f2) :
         f2 \in {enkf_dz_forecast(f1) :
         f1 \in {enkf_x_forecast(f0, draw) :
         f0 \in {Frame(self, [z_forecast |-> z_forecast,
                              x_observed |-> x_observed,
                              time_index |-> time_index])}}}}}}}}})

(***************************************************************************)
(* The statements that the updates other than the first share.             *)
(***************************************************************************)
\* n_particles = z_forecast.shape[0]
update_n_particles(f) == Then(f, Assign(f, "n_particles", NRows(f.z_forecast)))

\* z_mean_forecast = z_forecast.mean(0)
update_z_mean_forecast(f) ==
    Then(f, Assign(f, "z_mean_forecast", Mean0(f.z_forecast)))

\* dz_forecast = z_forecast - z_mean_forecast
update_dz_forecast(f) ==
    Then(f, Assign(f, "dz_forecast",
                   RowsSub(f.z_forecast, f.z_mean_forecast)))

\* x_forecast = self.observation_func(z_forecast, time_index)
update_x_forecast(f) ==
    Then(f, Observed(Assign(f, "x_forecast",
                            observation_func(f.self.observe, f.z_forecast,
                                             f.time_index))))

\* x_mean_forecast = x_forecast.mean(0)
update_x_mean_forecast(f) ==
    Then(f, Assign(f, "x_mean_forecast", Mean0(f.x_forecast)))

\* dx_forecast = x_forecast - x_mean_forecast
update_dx_forecast(f) ==
    Then(f, Assign(f, "dx_forecast",
                   RowsSub(f.x_forecast, f.x_mean_forecast)))

\* eigval_m, eigvec_m = la.eigh(m_matrix)
update_eigh_m(f) == Then(f, Linalg(Assign(f, "eig_m", eigh(f.m_matrix))))

\* The margin above 1 within which the specification counts an eigenvalue as
\* equal to 1.  The comparison of the source has no such margin; numbers here
\* are exact, and the margin is one that an exact eigenvalue of the generated
\* scenarios falls within.
Tolerance == Rat(1, 128)

\* a faulty variant: the warning is issued only for an eigenvalue above 1 by
\* more than the tolerance
WarnBeyondTolerance(self, eig_m) ==
    IF self.warn /\ \E g \in 1..Len(eig_m) : Gt(eig_m[g].val, Add(One, Tolerance))
    THEN <<Warning(MaxEigenvalue(eig_m))>>
    ELSE <<>>

\* a faulty variant: the warning is issued whatever warn and the eigenvalues are
WarnAlways(self, eig_m) == <<Warning(MaxEigenvalue(eig_m))>>

\* if self.warn and np.any(eigval_m > 1.): warnings.warn(... eigval_m.max())
InstabilityWarnings(self, eig_m) ==
    IF self.warn /\ AnyAboveOne(eig_m)
    THEN <<Warning(MaxEigenvalue(eig_m))>>
    ELSE <<>>

update_warn(f) ==
    Then(f, [f EXCEPT !["warned"] = @ \o InstabilityWarnings(f.self, f.eig_m)])

\* a faulty variant: the eigenvalues are not clipped
ClipNothing(eigval) == eigval

\* np.clip(eigval_m, -np.inf, 1.)
ClipEigenvalue(eigval) == Clip(eigval)

\* sqrt_matrix = (eigvec_m * (radicand)**0.5).dot(eigvec_m.T)
update_sqrt_matrix(f) ==
    Then(f, Assign(f, "sqrt_matrix",
                   Reconstruct(f.eig_m, Array([g \in 1..Len(f.eig_m) |->
                                            Sqrt(f.radicand[g])]))))

\* dz_analysis = sqrt_matrix.dot(dz_forecast)
AnalysisDeviations(sqrt_matrix, dz_forecast) == MatMul(sqrt_matrix, dz_forecast)

update_dz_analysis(f) ==
    Then(f, Assign(f, "dz_analysis",
                   AnalysisDeviations(f.sqrt_matrix, f.dz_forecast)))

\* return (z_mean_analysis + dz_analysis, z_mean_analysis,
\*         (dz_analysis**2).mean(0)**0.5)
update_return(f) ==
    Then(f, Assign(f, "ret", <<RowsAdd(f.dz_analysis, f.z_mean_analysis),
                               f.z_mean_analysis,
                               RootMeanSquare(f.dz_analysis)>>))

(***************************************************************************)
(* EnsembleSquareRootFilter.analysis_update                                *)
(***************************************************************************)
\* c_matrix = (dx_forecast.T.dot(dx_forecast) +
\*             (n_particles - 1) * self.obser_noise_covar)
esrf_c_matrix(self, n_particles, dx_forecast) ==
    MatAdd(MatMul(Transpose(dx_forecast), dx_forecast),
           MatScale(Num(n_particles - 1), self.obser_noise_covar))

esrf_assign_c_matrix(f) ==
    Then(f, Assign(f, "c_matrix",
                   esrf_c_matrix(f.self, f.n_particles, f.dx_forecast)))

\* eigval_c, eigvec_c = la.eigh(c_matrix), kept as the product the method
\* forms of them twice, (eigvec_c / eigval_c).dot(eigvec_c.T)
esrf_eigh_c_matrix(f) ==
    Then(f, Linalg(Assign(f, "c_reciprocal", eigh_reciprocal(f.c_matrix))))

\* k_gain = c_reciprocal.dot(dx_forecast.T.dot(dz_forecast))
esrf_k_gain(f) ==
    Then(f, Assign(f, "k_gain",
                   MatMul(f.c_reciprocal,
                          MatMul(Transpose(f.dx_forecast), f.dz_forecast))))

\* z_mean_analysis = z_mean_forecast + (x_observed - x_mean_forecast).dot(k_gain)
esrf_z_mean_analysis(f) ==
    Then(f, IF \/ ~Broadcastable(f.x_observed, f.x_mean_forecast)
               \/ BroadcastLen(f.x_observed, f.x_mean_forecast) # NRows(f.k_gain)
            THEN Raise(f, "ValueError")
            ELSE Assign(f, "z_mean_analysis",
                        VecAdd(f.z_mean_forecast,
                               VecMat(BroadcastSub(f.x_observed,
                                                   f.x_mean_forecast),
                                      f.k_gain))))

\* m_matrix = dx_forecast.dot(c_reciprocal).dot(dx_forecast.T)
esrf_m_matrix(f) ==
    Then(f, Assign(f, "m_matrix",
                   MatMul(MatMul(f.dx_forecast, f.c_reciprocal),
                          Transpose(f.dx_forecast))))

\* abs(1 - np.clip(eigval_m, -np.inf, 1.)), per eigenspace
esrf_radicand(f) ==
    Then(f, Assign(f, "radicand",
                   Array([g \in 1..Len(f.eig_m) |->
                       AbsNum(Sub(One, ClipEigenvalue(f.eig_m[g].val)))])))

esrf_analysis_update(self, z_forecast, x_observed, time_index) ==
    The({Outcome(f17) :
         f17 \in {update_return(f16) :
         f16 \in {update_dz_analysis(f15) :
         f15 \in {update_sqrt_matrix(f14) :
         f14 \in {esrf_radicand(f13) :
         f13 \in {update_warn(f12) :
         f12 \in {update_eigh_m(f11) :
         f11 \in {esrf_m_matrix(f10) :
         f10 \in {esrf_z_mean_analysis(f9) :
         f9 \in {esrf_k_gain(f8) :
         f8 \in {esrf_eigh_c_matrix(f7) :
         f7 \in {esrf_assign_c_matrix(f6) :
         f6 \in {update_dx_forecast(f5) :
         f5 \in {update_x_mean_forecast(f4) :
         f4 \in {update_x_forecast(f3) :
         f3 \in {update_dz_forecast(f2) :
         f2 \in {update_z_mean_forecast(f1) :
         f1 \in {update_n_particles(f0) :
         f0 \in {Frame(self, [z_forecast |-> z_forecast,
                              x_observed |-> x_observed,
                              time_index |-> time_index])}}}}}}}}}}}}}}}}}}})

(***************************************************************************)
(* WoodburyEnsembleSquareRootFilter.analysis_update                        *)
(***************************************************************************)
\* dx_error = x_observed - x_mean_forecast
wesrf_dx_error(f) ==
    Then(f, IF ~Broadcastable(f.x_observed, f.x_mean_forecast)
            THEN Raise(f, "ValueError")
            ELSE Assign(f, "dx_error",
                        BroadcastSub(f.x_observed, f.x_mean_forecast)))

\* a_matrix: self.obser_noise_preci.dot(dx_forecast.T) for a dense precision,
\* (self.obser_noise_preci * dx_forecast).T for a diagonal or a scalar one
wesrf_a_matrix(self, dx_forecast) ==
    IF self.obser_noise_preci_is_dense
    THEN MatMul(self.obser_noise_preci.a, Transpose(dx_forecast))
    ELSE IF self.obser_noise_preci.ndim = 1
    THEN Transpose(RowsMul(dx_forecast, self.obser_noise_preci.a))
    ELSE Transpose(MatScale(self.obser_noise_preci.a, dx_forecast))

wesrf_assign_a_matrix(f) ==
    Then(f, Assign(f, "a_matrix", wesrf_a_matrix(f.self, f.dx_forecast)))

\* b_vector = dx_error.dot(a_matrix)
wesrf_b_vector(f) ==
    Then(f, IF Len(f.dx_error) # NRows(f.a_matrix)
            THEN Raise(f, "ValueError")
            ELSE Assign(f, "b_vector", VecMat(f.dx_error, f.a_matrix)))

\* c_matrix = dx_forecast.dot(a_matrix)
wesrf_c_matrix(f) ==
    Then(f, Assign(f, "c_matrix", MatMul(f.dx_forecast, f.a_matrix)))

\* d_matrix = (n_particles - 1) * np.eye(n_particles) + c_matrix
wesrf_d_matrix(n_particles, c_matrix) ==
    MatAdd(MatScale(Num(n_particles - 1), Eye(n_particles)), c_matrix)

wesrf_assign_d_matrix(f) ==
    Then(f, Assign(f, "d_matrix", wesrf_d_matrix(f.n_particles, f.c_matrix)))

\* e_matrix = la.solve(d_matrix, c_matrix)
wesrf_e_matrix(f) ==
    Then(f, Linalg(IF solve_raises(f.d_matrix)
                   THEN Raise(f, "LinAlgError")
                   ELSE Assign(f, "e_matrix", solve(f.d_matrix, f.c_matrix))))

\* z_mean_analysis = z_mean_forecast + (
\*     (b_vector - b_vector.dot(e_matrix)).dot(dz_forecast) / (n_particles - 1))
wesrf_z_mean_analysis(f) ==
    Then(f, Assign(f, "z_mean_analysis",
                   VecAdd(f.z_mean_forecast,
                          VecDivScalar(
                              VecMat(VecSub(f.b_vector,
                                            VecMat(f.b_vector, f.e_matrix)),
                                     f.dz_forecast),
                              Num(f.n_particles - 1)))))

\* m_matrix = (c_matrix - c_matrix.dot(e_matrix)) / (n_particles - 1)
wesrf_m_matrix(f) ==
    Then(f, Assign(f, "m_matrix",
                   MatDivScalar(MatSub(f.c_matrix,
                                       MatMul(f.c_matrix, f.e_matrix)),
                                Num(f.n_particles - 1))))

\* 1 - np.clip(eigval_m, -np.inf, 1.), per eigenspace
wesrf_radicand(f) ==
    Then(f, Assign(f, "radicand",
                   Array([g \in 1..Len(f.eig_m) |->
                       Sub(One, ClipEigenvalue(f.eig_m[g].val))])))

wesrf_analysis_update(self, z_forecast, x_observed, time_index) ==
    The({Outcome(f20) :
         f20 \in {update_return(f19) :
         f19 \in {update_dz_analysis(f18) :
         f18 \in {update_sqrt_matrix(f17) :
         f17 \in {wesrf_radicand(f16) :
         f16 \in {update_warn(f15) :
         f15 \in {update_eigh_m(f14) :
         f14 \in {wesrf_m_matrix(f13) :
         f13 \in {wesrf_z_mean_analysis(f12) :
         f12 \in {wesrf_e_matrix(f11) :
         f11 \in {wesrf_assign_d_matrix(f10) :
         f10 \in {wesrf_c_matrix(f9) :
         f9 \in {wesrf_b_vector(f8) :
         f8 \in {wesrf_assign_a_matrix(f7) :
         f7 \in {wesrf_dx_error(f6) :
         f6 \in {update_dx_forecast(f5) :
         f5 \in {update_x_mean_forecast(f4) :
         f4 \in {update_x_forecast(f3) :
         f3 \in {update_dz_forecast(f2) :
         f2 \in {update_z_mean_forecast(f1) :
         f1 \in {update_n_particles(f0) :
         f0 \in {Frame(self, [z_forecast |-> z_forecast,
                              x_observed |-> x_observed,
                              time_index |-> time_index])}}}}}}}}}}}}}}}}}}}}}})

(***************************************************************************)
(* LocalEnsembleTransformKalmanFilter.local_analysis_update.               *)
(* svd_of_empty is what la.svd does, in the numpy of the build, with an    *)
(* array that has no columns (no local observation): older releases raise  *)
(* LinAlgError("Arrays cannot be empty"), newer ones return the identity   *)
(* for u and no singular value.                                            *)
(***************************************************************************)
\* n_p = z_forecast.shape[0]
letkf_n_p(f) == Then(f, Assign(f, "n_p", NRows(f.z_forecast)))

\* eff_inv_obs_var = localisation_weights / obs_noise_std**2
letkf_eff_inv_obs_var(f) ==
    Then(f, Assign(f, "eff_inv_obs_var",
                   Array([j \in 1..Len(f.localisation_weights) |->
                       Div(f.localisation_weights[j],
                           Mul(f.obs_noise_std[j], f.obs_noise_std[j]))])))

\* eigvec_p, sing_val, _ = la.svd(dx_forecast * eff_inv_obs_var**0.5):
\* eigvec_p is kept as the spaces its columns span, each with its singular
\* value
letkf_svd(f, svd_of_empty) ==
    Then(f, Linalg(IF NCols(f.dx_forecast) = 0 /\ svd_of_empty = "LinAlgError"
                   THEN Raise(f, "LinAlgError")
                   ELSE Assign(f, "eigvec_p",
                               svd(RowsMul(f.dx_forecast,
                                           Array([j \in 1..Len(f.eff_inv_obs_var) |->
                                               Sqrt(f.eff_inv_obs_var[j])]))))))

letkf_sing_val(f) ==
    Then(f, Assign(f, "sing_val",
                   SubSeq(Eigenvalues(f.eigvec_p), 1,
                          IF NCols(f.dx_forecast) < f.n_p
                          THEN NCols(f.dx_forecast) ELSE f.n_p)))

\* eigval_p_inv = np.ones(n_p) * (n_p - 1) / self.inflation_factor
\* eigval_p_inv[:dx_forecast.shape[1]] += sing_val**2
letkf_eigval_p_inv(self, n_p, dim_x, sing_val) ==
    Array([i \in 1..n_p |->
        Add(Div(Mul(One, Num(n_p - 1)), self.inflation_factor),
            IF i <= dim_x THEN Mul(sing_val[i], sing_val[i]) ELSE Zero)])

letkf_assign_eigval_p_inv(f) ==
    Then(f, Assign(f, "eigval_p_inv",
                   letkf_eigval_p_inv(f.self, f.n_p, NCols(f.dx_forecast),
                                      f.sing_val)))

\* eigval_p = 1. / eigval_p_inv
letkf_eigval_p(f) ==
    Then(f, Assign(f, "eigval_p",
                   Array([i \in 1..f.n_p |-> Div(One, f.eigval_p_inv[i])])))

\* position of the first vector of space g among the columns of eigvec_p,
\* and the entries of a per-column array at those positions
FirstColumn(groups, g) ==
    1 + Len(Eigenvalues(SubSeq(groups, 1, g - 1)))
PerGroup(groups, array) ==
    Array([g \in 1..Len(groups) |-> array[FirstColumn(groups, g)]])

\* dw_matrix = (n_p - 1)**0.5 * (eigvec_p * eigval_p**0.5).dot(eigvec_p.T)
letkf_dw_matrix(f) ==
    Then(f, Assign(f, "dw_matrix",
                   MatScale(Sqrt(Num(f.n_p - 1)),
                            Reconstruct(f.eigvec_p,
                                        PerGroup(f.eigvec_p,
                                                 Array([i \in 1..f.n_p |->
                                                     Sqrt(f.eigval_p[i])]))))))

\* d_vector = (dx_forecast * eff_inv_obs_var).dot(x_observed - x_mean_forecast)
letkf_d_vector(f) ==
    Then(f, Assign(f, "d_vector",
                   MatVec(RowsMul(f.dx_forecast, f.eff_inv_obs_var),
                          VecSub(f.x_observed, f.x_mean_forecast))))

\* w_mean = eigvec_p.dot(eigval_p * eigvec_p.T.dot(d_vector))
letkf_w_mean(f) ==
    Then(f, Assign(f, "w_mean",
                   MatVec(Reconstruct(f.eigvec_p,
                                      PerGroup(f.eigvec_p, f.eigval_p)),
                          f.d_vector)))

\* w_matrix = w_mean[None] + dw_matrix
letkf_w_matrix(f) ==
    Then(f, Assign(f, "w_matrix", RowsAdd(f.dw_matrix, f.w_mean)))

\* return z_mean_forecast + w_matrix.dot(dz_forecast)
letkf_return(f) ==
    Then(f, Assign(f, "ret",
                   RowsAdd(MatMul(f.w_matrix, f.dz_forecast),
                           f.z_mean_forecast)))

\* the statements up to the decomposition, which read the arguments only
letkf_until_svd(f, svd_of_empty) ==
    The({f8 :
         f8 \in {letkf_sing_val(f7) :
         f7 \in {letkf_svd(f6, svd_of_empty) :
         f6 \in {letkf_eff_inv_obs_var(f5) :
         f5 \in {update_dx_forecast(f4) :
         f4 \in {update_x_mean_forecast(f3) :
         f3 \in {update_dz_forecast(f2) :
         f2 \in {update_z_mean_forecast(f1) :
         f1 \in {letkf_n_p(f0) :
         f0 \in {f}}}}}}}}}})

\* the statements from the read of self.inflation_factor on
letkf_from_inflation(f) ==
    The({f7 :
         f7 \in {letkf_return(f6) :
         f6 \in {letkf_w_matrix(f5) :
         f5 \in {letkf_w_mean(f4) :
         f4 \in {letkf_d_vector(f3) :
         f3 \in {letkf_dw_matrix(f2) :
         f2 \in {letkf_eigval_p(f1) :
         f1 \in {letkf_assign_eigval_p_inv(f0) :
         f0 \in {f}}}}}}}}})

letkf_local_analysis_update(self, z_forecast, x_forecast, x_observed, obs_noise_std, localisation_weights, svd_of_empty) ==
    The({Outcome(f2) :
         f2 \in {letkf_from_inflation(f1) :
         f1 \in {letkf_until_svd(f0, svd_of_empty) :
         f0 \in {Frame(self, [z_forecast |-> z_forecast,
                              x_forecast |-> x_forecast,
                              x_observed |-> x_observed,
                              obs_noise_std |-> obs_noise_std,
                              localisation_weights |->
                                  localisation_weights])}}}})

(***************************************************************************)
(* The program around the updates: four filter objects are constructed     *)
(* over one observation operator and noise model, and a driver then        *)
(* obtains forecast ensembles and observations and calls the updates.      *)
(***************************************************************************)
VARIABLES
    scenario,     \* what the filters were constructed from, and the build
    filters,      \* class name -> filter object
    arrays,       \* the caller's arrays: z_forecast, x_observed, time_index
    called,       \* class name -> the last call on the present arrays: its
                  \* arguments as passed (input), its Outcome (out) and
                  \* whether there was a call before it (again), or <<>>
                  \* before any
    n_calls,      \* update calls made
    n_warnings,   \* warnings issued through warnings.warn
    n_offending,  \* calls on a filter with warn set in which some
                  \* eigenvalue of m_matrix was above 1
    localisation, \* which observations the localisation function selects
    local_frames, \* grid point -> frame of its local update in progress
    z_analysis,   \* grid point -> what its local update returned
    finished      \* the grid points in the order their updates returned

global_vars ==
    <<scenario, filters, arrays, called, n_calls, n_warnings, n_offending>>
grid_vars == <<localisation, local_frames, z_analysis, finished>>
vars == <<global_vars, grid_vars>>

EnKF == "EnsembleKalmanFilter"
ESRF == "EnsembleSquareRootFilter"
WESRF == "WoodburyEnsembleSquareRootFilter"
LETKF == "LocalEnsembleTransformKalmanFilter"
Classes == {EnKF, ESRF, WESRF, LETKF}

IntMatrix(rows) ==
    [i \in 1..Len(rows) |-> [j \in 1..Len(rows[i]) |-> Num(rows[i][j])]]
IntVector(xs) == [j \in 1..Len(xs) |-> Num(xs[j])]
Precision(ndim, a) == [ndim |-> ndim, a |-> a]

Scenario(dim_x, noise_matrix, preci, warn, inflation, noise_std, svd_of_empty) ==
    [dim_x |-> dim_x, obser_noise_matrix |-> noise_matrix,
     obser_noise_preci |-> preci, warn |-> warn,
     inflation_factor |-> inflation, obs_noise_std |-> noise_std,
     svd_of_empty |-> svd_of_empty]

\* Observation noise models, each with the noise transform J of the
\* square-root filter and the precision of the Woodbury filter: the same
\* covariance J.J^T as a scalar, as a diagonal and as a dense precision, and
\* precisions that are not positive semi-definite, which drive eigenvalues of
\* m_matrix above 1: to 2 (precision -4), and to 1 + 1/128 for 2 particles
\* and 1 + 1/257 for 3 (precision -258).
Scenarios ==
    { Scenario(1, IntMatrix(<<<<1>>>>), Precision(0, Num(1)),
               TRUE, Num(1), IntVector(<<1>>), "identity"),
      Scenario(1, IntMatrix(<<<<2>>>>), Precision(1, <<Rat(1, 4)>>),
               FALSE, Num(2), IntVector(<<2>>), "LinAlgError"),
      Scenario(2, IntMatrix(<<<<1, 0>>, <<1, 1>>>>),
               Precision(2, IntMatrix(<<<<2, -1>>, <<-1, 1>>>>)),
               TRUE, Num(2), IntVector(<<1, 1>>), "identity"),
      Scenario(1, IntMatrix(<<<<1>>>>), Precision(0, Num(-4)),
               TRUE, Num(1), IntVector(<<1>>), "identity"),
      Scenario(1, IntMatrix(<<<<1>>>>), Precision(0, Num(-258)),
               TRUE, Num(1), IntVector(<<1>>), "identity"),
      Scenario(2, IntMatrix(<<<<1, 0>>, <<0, 1>>>>),
               Precision(2, IntMatrix(<<<<-1, 0>>, <<0, -1>>>>)),
               FALSE, Rat(3, 2), IntVector(<<1, 2>>), "identity"),
      Scenario(3, IntMatrix(<<<<1, 0, 0>>, <<0, 1, 0>>, <<0, 0, 1>>>>),
               Precision(1, IntVector(<<1, 1, 1>>)),
               TRUE, Num(2), IntVector(<<1, 1, 1>>), "identity") }

Construct(sc) ==
    [c \in Classes |->
        CASE c = EnKF -> EnsembleKalmanFilter(sc.dim_x)
          [] c = ESRF ->
                EnsembleSquareRootFilter(sc.dim_x, sc.obser_noise_matrix, sc.warn)
          [] c = WESRF ->
                WoodburyEnsembleSquareRootFilter(sc.dim_x, sc.obser_noise_preci,
                                                 sc.warn)
          [] c = LETKF ->
                LocalEnsembleTransformKalmanFilter(sc.dim_x, sc.inflation_factor)]

\* Forecast ensembles of n particles and dz state dimensions: particle i has
\* (j - 1) + spread * (i - 1) * j in dimension j, so spread 0 is an ensemble
\* of identical particles.  Ensembles of three particles go with one observed
\* dimension only.
ForecastEnsemble(n, dz, spread) ==
    [i \in 1..n |-> [j \in 1..dz |-> Num((j - 1) + spread * (i - 1) * j)]]

Shapes(dim_x) ==
    {<<1, 2>>, <<2, 2>>} \cup (IF dim_x = 1 THEN {<<3, 1>>} ELSE {})

Ensembles(dim_x) ==
    { ForecastEnsemble(shape[1], shape[2], spread) :
        shape \in Shapes(dim_x), spread \in {0, MaxSpread} }

\* Observed vectors: of the observed dimension, and of a wrong one (longer
\* by one, or of length one, which numpy broadcasts)
ObservedVector(len, first) == [j \in 1..len |-> Num(first + 2 * (j - 1))]

ObservedVectors(dim_x) ==
    { ObservedVector(dim_x, 1), ObservedVector(dim_x + 1, 1),
      ObservedVector(1, 1) }

NoCall == <<>>

Init ==
    /\ scenario \in Scenarios
    /\ filters = Construct(scenario)
    /\ \E z \in Ensembles(scenario.dim_x), x \in ObservedVectors(scenario.dim_x) :
          arrays = [z_forecast |-> z, x_observed |-> x, time_index |-> 0]
    /\ called = [c \in Classes |-> NoCall]
    /\ n_calls = 0
    /\ n_warnings = 0
    /\ n_offending = 0
    /\ localisation = 0
    /\ local_frames = [g \in 1..MaxGrid |-> <<>>]
    /\ z_analysis = [g \in 1..MaxGrid |-> <<>>]
    /\ finished = <<>>

\* the driver, after an update, obtains the next forecast ensemble and
\* observation, which have the shapes of the present ones
Forecast ==
    /\ n_calls < MaxCalls
    /\ \E c \in Classes : called[c] # NoCall
    /\ \E z \in Ensembles(scenario.dim_x), x \in ObservedVectors(scenario.dim_x) :
          /\ NRows(z) = NRows(arrays.z_forecast)
          /\ NCols(z) = NCols(arrays.z_forecast)
          /\ Len(x) = Len(arrays.x_observed)
          /\ arrays' = [z_forecast |-> z, x_observed |-> x, time_index |-> 0]
    /\ arrays' # arrays
    /\ called' = [c \in Classes |-> NoCall]
    /\ UNCHANGED <<scenario, filters, n_calls, n_warnings, n_offending>>
    /\ UNCHANGED grid_vars

Offending(self, out) ==
    /\ self.cls \in {ESRF, WESRF}
    /\ self.warn
    /\ \E i \in 1..Len(out.eigval_m) : Gt(out.eigval_m[i], One)

\* what a call of class cls with the given arguments and outcome leaves
Record(cls, input, out) ==
    /\ filters' = [filters EXCEPT ![cls] = out.self]
    /\ arrays' = [z_forecast |-> out.args.z_forecast,
                  x_observed |->
                      out.args.x_observed \o
                          SubSeq(arrays.x_observed, Len(out.args.x_observed) + 1,
                                 Len(arrays.x_observed)),
                  time_index |-> arrays.time_index]
    /\ called' = [called EXCEPT
                     ![cls] = [input |-> input, out |-> out,
                               again |-> @ # NoCall]]
    /\ n_calls' = n_calls + 1
    /\ n_warnings' = n_warnings + Len(out.warned)
    /\ n_offending' =
          n_offending + (IF Offending(filters[cls], out) THEN 1 ELSE 0)
    /\ UNCHANGED <<scenario, grid_vars>>

GlobalInput == arrays

CallEnKF ==
    /\ n_calls < MaxCalls
    /\ \E draw \in {0, 1} :
          Record(EnKF, GlobalInput,
                 enkf_analysis_update(filters[EnKF], arrays.z_forecast,
                                      arrays.x_observed, arrays.time_index,
                                      draw))

CallESRF ==
    /\ n_calls < MaxCalls
    /\ Record(ESRF, GlobalInput,
              esrf_analysis_update(filters[ESRF], arrays.z_forecast,
                                   arrays.x_observed, arrays.time_index))

CallWESRF ==
    /\ n_calls < MaxCalls
    /\ Record(WESRF, GlobalInput,
              wesrf_analysis_update(filters[WESRF], arrays.z_forecast,
                                    arrays.x_observed, arrays.time_index))

\* The local driver hands the update the observations its localisation
\* function selects for the grid point, with their weights: all of them with
\* weight 0 or with weight 1, or none.
LocalWeights == {"zero", "one", "none"}

LocalInput(weights) ==
    LET dim == IF weights = "none" THEN 0 ELSE scenario.dim_x
    IN  [z_forecast |-> arrays.z_forecast,
         x_forecast |->
            observation_func(dim, arrays.z_forecast, arrays.time_index),
         x_observed |-> SubSeq(arrays.x_observed, 1, dim),
         obs_noise_std |-> SubSeq(scenario.obs_noise_std, 1, dim),
         localisation_weights |->
            [j \in 1..dim |-> IF weights = "one" THEN One ELSE Zero]]

CallLETKF ==
    /\ n_calls < MaxCalls
    /\ Len(arrays.x_observed) = scenario.dim_x
    /\ \E weights \in LocalWeights :
          Record(LETKF, LocalInput(weights),
                 letkf_local_analysis_update(
                     filters[LETKF], LocalInput(weights).z_forecast,
                     LocalInput(weights).x_forecast,
                     LocalInput(weights).x_observed,
                     LocalInput(weights).obs_noise_std,
                     LocalInput(weights).localisation_weights,
                     scenario.svd_of_empty))

Next == Forecast \/ CallEnKF \/ CallESRF \/ CallWESRF \/ CallLETKF

Spec == Init /\ [][Next]_vars

(***************************************************************************)
(* One time step of the local filter: the driver runs one local update per *)
(* grid point, in any order and overlapping.  Grid point g has column g of *)
(* the forecast ensemble as its local state; the localisation function     *)
(* gives it all the observations with weight 1, all with weight 0, or      *)
(* none, by its distance from the observations.  A call reads its          *)
(* arguments up to the decomposition and self.inflation_factor after it,   *)
(* so a call is two steps, between which other calls may run.              *)
(***************************************************************************)
GridPoints == 1..MaxGrid

GridEnsembles(dim_x) ==
    { ForecastEnsemble(n, MaxGrid, spread) :
        n \in (IF dim_x = 1 THEN {1, 2, 3} ELSE {1, 2}),
        spread \in {0, MaxSpread} }

WeightsAt(g) ==
    CASE (g + localisation) % 3 = 0 -> "none"
      [] (g + localisation) % 3 = 1 -> "one"
      [] (g + localisation) % 3 = 2 -> "zero"

LocalInputAt(z_forecast, g) ==
    LET dim == IF WeightsAt(g) = "none" THEN 0 ELSE scenario.dim_x
    IN  [z_forecast |-> [n \in 1..Len(z_forecast) |-> <<z_forecast[n][g]>>],
         x_forecast |-> observation_func(dim, z_forecast, arrays.time_index),
         x_observed |-> SubSeq(arrays.x_observed, 1, dim),
         obs_noise_std |-> SubSeq(scenario.obs_noise_std, 1, dim),
         localisation_weights |->
            [j \in 1..dim |-> IF WeightsAt(g) = "one" THEN One ELSE Zero]]

InitGrid ==
    /\ scenario \in Scenarios
    /\ filters = Construct(scenario)
    /\ \E z \in GridEnsembles(scenario.dim_x) :
          arrays = [z_forecast |-> z,
                    x_observed |-> ObservedVector(scenario.dim_x, 1),
                    time_index |-> 0]
    /\ called = [c \in Classes |-> NoCall]
    /\ n_calls = 0
    /\ n_warnings = 0
    /\ n_offending = 0
    /\ localisation \in 0..2
    /\ local_frames = [g \in GridPoints |-> <<>>]
    /\ z_analysis = [g \in GridPoints |-> <<>>]
    /\ finished = <<>>

LocalStart(g) ==
    /\ local_frames[g] = <<>>
    /\ z_analysis[g] = <<>>
    /\ local_frames' =
          [local_frames EXCEPT
              ![g] = letkf_until_svd(
                         Frame(filters[LETKF],
                               LocalInputAt(arrays.z_forecast, g)),
                         scenario.svd_of_empty)]
    /\ UNCHANGED <<global_vars, localisation, z_analysis, finished>>

\* the rest of the call, on the object self refers to as it is now; the
\* driver stores what the call returns for the grid point, and what the call
\* leaves of its state argument is what the grid point's column is left as
LocalFinish(g) ==
    /\ local_frames[g] # <<>>
    /\ LET out == Outcome(letkf_from_inflation(
                       [local_frames[g] EXCEPT !["self"] = filters[LETKF]]))
       IN  /\ z_analysis' =
                 [z_analysis EXCEPT ![g] = [exc |-> out.exc, ret |-> out.ret]]
           /\ filters' = [filters EXCEPT ![LETKF] = out.self]
           /\ arrays' =
                 [arrays EXCEPT
                     !.z_forecast =
                         [n \in 1..Len(@) |->
                             [@[n] EXCEPT ![g] = out.args.z_forecast[n][1]]]]
    /\ local_frames' = [local_frames EXCEPT ![g] = <<>>]
    /\ finished' = Append(finished, g)
    /\ UNCHANGED <<scenario, called, n_calls, n_warnings, n_offending,
                   localisation>>

NextGrid == \E g \in GridPoints : LocalStart(g) \/ LocalFinish(g)

SpecGrid == InitGrid /\ [][NextGrid]_vars

(***************************************************************************)
(* The claims.  They are about the calls made on the present arrays.       *)
(***************************************************************************)
Made == {c \in Classes : called[c] # NoCall}
In(c) == called[c].input
Out(c) == called[c].out
Returned(c) == Out(c).exc = "none"
Particles(c) == NRows(In(c).z_forecast)
StateDim(c) == NCols(In(c).z_forecast)

\* the observed vector has the observed dimension
ShapesConsistent(c) ==
    Len(In(c).x_observed) =
        (IF c = LETKF THEN NCols(In(c).x_forecast) ELSE scenario.dim_x)

\* the analysis ensemble a call returned
Ensemble(c) == IF c = LETKF THEN Out(c).ret ELSE Out(c).ret[1]
HasShape(m, n, d) == Len(m) = n /\ \A i \in 1..n : Len(m[i]) = d
ReturnsShape(c) ==
    Returned(c) /\ HasShape(Ensemble(c), Particles(c), StateDim(c))

\* the precision of the Woodbury filter as a dense matrix
DensePrecision ==
    LET p == scenario.obser_noise_preci
    IN  [i \in 1..scenario.dim_x |->
            [j \in 1..scenario.dim_x |->
                CASE p.ndim = 2 -> p.a[i][j]
                  [] p.ndim = 1 -> IF i = j THEN p.a[i] ELSE Zero
                  [] p.ndim = 0 -> IF i = j THEN p.a ELSE Zero]]

\* the rows and columns of m in the set s
Principal(m, s) ==
    LET RECURSIVE Pick(_, _)
        Pick(k, left) ==
            IF left = {} THEN <<>>
            ELSE LET i == CHOOSE i \in left : \A j \in left : i <= j
                 IN  <<i>> \o Pick(k + 1, left \ {i})
        idx == Pick(1, s)
    IN  [a \in 1..Len(idx) |-> [b \in 1..Len(idx) |-> m[idx[a]][idx[b]]]]

IsPositiveSemiDefinite(m) ==
    /\ IsSymmetric(m)
    /\ \A s \in SUBSET (1..Len(m)) : s # {} => Ge(Det(Principal(m, s)), Zero)

IsPositiveDefinite(m) ==
    /\ IsSymmetric(m)
    /\ \A k \in 1..Len(m) : Gt(Det(Principal(m, 1..k)), Zero)

\* the precision is the inverse of the covariance J.J^T of the noise matrix
PrecisionEncodesCovariance ==
    MatMul(DensePrecision,
           MatMul(scenario.obser_noise_matrix,
                  Transpose(scenario.obser_noise_matrix)))
        = Eye(scenario.dim_x)

NoLocalObservation(c) == c = LETKF /\ NCols(In(c).x_forecast) = 0

----------------------------------------------------------------------------
\* a filter constructed with a noise model that is one: the precision of the
\* Woodbury filter is positive semi-definite
ValidNoiseModel(c) == c = WESRF => IsPositiveSemiDefinite(DensePrecision)

\* C1: every update called with arrays of consistent shapes, on a forecast
\* ensemble of N >= 1 particles, returns an analysis ensemble of the shape
\* (N, D_z) of the forecast ensemble.
C1_ShapeOfForecast ==
    \A c \in Made :
        ShapesConsistent(c) /\ ValidNoiseModel(c) => ReturnsShape(c)

\* C1, the part of it the code keeps: the shape is that of the forecast
\* ensemble for every N >= 1 in the Kalman, square-root and local transform
\* updates and for N >= 2 in the Woodbury update, the local transform update
\* with no local observation needing a numpy whose la.svd accepts an array
\* without columns.
C1_Kept(c) ==
    /\ c = WESRF => Particles(c) >= 2
    /\ NoLocalObservation(c) => scenario.svd_of_empty = "identity"

C1_ShapeFromTwoParticles ==
    \A c \in Made :
        ShapesConsistent(c) /\ ValidNoiseModel(c) /\ C1_Kept(c)
            => ReturnsShape(c)

\* C1, reached: the Woodbury update has returned a (2, 2) ensemble for a
\* forecast ensemble of 2 particles with nonzero spread and 3 observed
\* dimensions (D_x > N), and so has the local transform update
C1_ShapeReached ==
    /\ {WESRF, LETKF} \subseteq Made
    /\ scenario.dim_x = 3
    /\ Particles(WESRF) = 2 /\ StateDim(WESRF) = 2
    /\ In(WESRF).z_forecast[1] # In(WESRF).z_forecast[2]
    /\ ShapesConsistent(WESRF) /\ ReturnsShape(WESRF)
    /\ ReturnsShape(LETKF)

----------------------------------------------------------------------------
\* C2: an update whose observed vector does not have
\* the observed dimension is rejected with an invalid-input error before the
\* observation function or sampler is called and before any linear algebra
\* is done, and returns no result.
C2_MismatchRejectedFirst ==
    \A c \in Made \cap {EnKF, ESRF, WESRF} :
        ~ShapesConsistent(c) =>
            /\ Out(c).exc = "ValueError"
            /\ Out(c).observations = 0
            /\ Out(c).linalg = 0
            /\ Out(c).ret = <<>>

----------------------------------------------------------------------------
MaxOf(eigval) ==
    CHOOSE x \in {eigval[i] : i \in DOMAIN eigval} :
        \A i \in DOMAIN eigval : Ge(x, eigval[i])

OutOfRange(c) ==
    /\ c \in {ESRF, WESRF}
    /\ \E i \in DOMAIN Out(c).eigval_m : Gt(Out(c).eigval_m[i], One)

\* C3: a square-root or Woodbury update with warn = True and an eigenvalue of
\* M above 1 issues exactly one warning, which carries the largest
\* eigenvalue; every other update (warn = False, or no eigenvalue above 1, or
\* another filter) issues none; so over any sequence of calls the number of
\* warnings is the number of offending calls.
C3_OneWarningPerOffendingCall ==
    /\ \A c \in Made :
          Out(c).warned =
              IF OutOfRange(c) /\ filters[c].warn
              THEN <<Warning(MaxOf(Out(c).eigval_m))>>
              ELSE <<>>
    /\ n_warnings = n_offending

\* C3, witness: two offending calls of the Woodbury filter have each issued
\* one warning, and a call of a filter without an eigenvalue above 1 on the
\* same arrays has issued none
C3_Witness ==
    /\ n_offending = 2 /\ n_warnings = 2
    /\ {ESRF, WESRF} \subseteq Made
    /\ OutOfRange(WESRF) /\ Len(Out(WESRF).warned) = 1
    /\ ~OutOfRange(ESRF) /\ Out(ESRF).warned = <<>> /\ Returned(ESRF)

----------------------------------------------------------------------------
\* C4: an eigenvalue of M above 1 is never fatal: the quantity under the
\* square root is >= 0 for every eigenvalue that is a number, whatever its
\* sign or size, and an update that has decomposed M returns its result
\* (ensemble, mean, spread).
C4_ClipKeepsRootReal ==
    \A c \in Made \cap {ESRF, WESRF} :
        Out(c).eigval_m # <<>> =>
            /\ Len(Out(c).radicand) >= 1
            /\ \A g \in DOMAIN Out(c).radicand :
                  \/ Ge(Out(c).radicand[g], Zero)
                  \/ \A i \in DOMAIN Out(c).eigval_m : IsNaN(Out(c).eigval_m[i])
            /\ Returned(c)
            /\ Len(Out(c).ret) = 3

\* C4, witness: a Woodbury update with an eigenvalue of M above 1 has
\* returned an ensemble of finite numbers
C4_Witness ==
    /\ WESRF \in Made
    /\ OutOfRange(WESRF)
    /\ Returned(WESRF)
    /\ AllFinite(Out(WESRF).ret[1])
    /\ \E g \in DOMAIN Out(WESRF).radicand : Out(WESRF).radicand[g] = Zero

----------------------------------------------------------------------------
----------------------------------------------------------------------------
Deterministic == {ESRF, WESRF, LETKF}

----------------------------------------------------------------------------
\* the grid points updated one after the other in index order, each call
\* returning before the next one starts, on a filter as constructed
RECURSIVE SequentialSelf(_), SequentialOutcome(_)
SequentialSelf(g) ==
    IF g = 1 THEN Construct(scenario)[LETKF] ELSE SequentialOutcome(g - 1).self

SequentialOutcome(g) ==
    The({letkf_local_analysis_update(
             self,
             LocalInputAt(arrays.z_forecast, g).z_forecast,
             LocalInputAt(arrays.z_forecast, g).x_forecast,
             LocalInputAt(arrays.z_forecast, g).x_observed,
             LocalInputAt(arrays.z_forecast, g).obs_noise_std,
             LocalInputAt(arrays.z_forecast, g).localisation_weights,
             scenario.svd_of_empty) :
         self \in {SequentialSelf(g)}})

----------------------------------------------------------------------------
\* the square-root and the Woodbury filter were given the same noise model
\* and have been called on the same arrays of consistent shapes
SameNoiseModelCalls ==
    /\ {ESRF, WESRF} \subseteq Made
    /\ ShapesConsistent(ESRF)
    /\ PrecisionEncodesCovariance

SameAnalysisMean ==
    /\ Returned(ESRF) /\ Returned(WESRF)
    /\ AllFinite(<<Out(ESRF).ret[2]>>)
    /\ Out(ESRF).ret[2] = Out(WESRF).ret[2]

\* C8: the square-root filter given the noise matrix J and the Woodbury
\* filter given the precision (J.J^T)^-1, as a dense matrix, as the vector of
\* its diagonal or as a scalar, return the same analysis mean for the same
\* arrays.
C8_SameAnalysisMean == SameNoiseModelCalls => SameAnalysisMean

\* C8, the part of it the code keeps: the same, for N >= 2 particles.
C8_SameMeanFromTwoParticles ==
    SameNoiseModelCalls /\ Particles(ESRF) >= 2 => SameAnalysisMean

\* C8, reached: both filters have returned the same mean, which differs from
\* the forecast mean, for an ensemble of 2 particles with nonzero spread and
\* a dense precision that is not diagonal
C8_SameMeanReached ==
    /\ SameNoiseModelCalls
    /\ SameAnalysisMean
    /\ scenario.obser_noise_preci.ndim = 2
    /\ DensePrecision[1][2] # Zero
    /\ Particles(ESRF) = 2
    /\ Out(ESRF).ret[2] # Mean0(In(ESRF).z_forecast)

----------------------------------------------------------------------------
\* a local update none of whose observations has a weight other than zero
NoWeightCall ==
    /\ LETKF \in Made
    /\ \A j \in DOMAIN In(LETKF).localisation_weights :
          In(LETKF).localisation_weights[j] = Zero

\* the forecast ensemble with its deviations from the mean inflated
Inflated(z_forecast, inflation_factor) ==
    RowsAdd(MatScale(Sqrt(inflation_factor),
                     RowsSub(z_forecast, Mean0(z_forecast))),
            Mean0(z_forecast))

\* the same call on another observed vector
OtherObserved(x_observed) ==
    [j \in DOMAIN x_observed |-> Add(x_observed[j], Num(j))]

NoWeightResult ==
    /\ Returned(LETKF)
    /\ AllFinite(Out(LETKF).ret)
    /\ Out(LETKF).ret =
           Inflated(In(LETKF).z_forecast, filters[LETKF].inflation_factor)
    /\ Out(LETKF).ret =
           letkf_local_analysis_update(
               filters[LETKF], In(LETKF).z_forecast, In(LETKF).x_forecast,
               OtherObserved(In(LETKF).x_observed), In(LETKF).obs_noise_std,
               In(LETKF).localisation_weights, scenario.svd_of_empty).ret

\* C9: a local update whose weights are all zero, or that has no local
\* observation, divides by no zero and returns the forecast mean with the
\* forecast deviations scaled by the square root of the inflation factor,
\* whatever the observed vector.
C9_NoWeightInflatesOnly == NoWeightCall => NoWeightResult

\* C9, the part of it the code keeps: the same, for N >= 2 particles and,
\* when there is no local observation, a numpy whose la.svd accepts an array
\* without columns.
C9_NoWeightKeepsForecast ==
    /\ NoWeightCall
    /\ Particles(LETKF) >= 2
    /\ NoLocalObservation(LETKF) => scenario.svd_of_empty = "identity"
    => NoWeightResult

\* C9, reached: an update with observations of weight zero has returned an
\* ensemble of 2 particles whose deviations are the forecast's, not zero,
\* scaled by the square root of an inflation factor other than 1
C9_NoWeightReached ==
    /\ NoWeightCall
    /\ NoWeightResult
    /\ ~NoLocalObservation(LETKF)
    /\ Particles(LETKF) = 2
    /\ filters[LETKF].inflation_factor # One
    /\ Out(LETKF).ret # In(LETKF).z_forecast

----------------------------------------------------------------------------
\* a Woodbury update with a positive semi-definite precision that has got as
\* far as its matrix d
WoodburySystem ==
    /\ WESRF \in Made
    /\ IsPositiveSemiDefinite(DensePrecision)
    /\ Out(WESRF).d_matrix # <<>>

WellPosed ==
    /\ IsPositiveDefinite(Out(WESRF).d_matrix)
    /\ Returned(WESRF)
    /\ AllFinite(Out(WESRF).ret[1])

\* C10: with a positive semi-definite precision the matrix d of the Woodbury
\* update is positive definite for every N >= 1, one particle and zero
\* spread included, so that the solve with d and the divisions by N - 1 do
\* not fail.
C10_SystemWellPosed == WoodburySystem => WellPosed

\* C10, the part of it the code keeps: the same for every N >= 2, zero
\* spread included.
C10_PositiveDefiniteFromTwoParticles ==
    WoodburySystem /\ Particles(WESRF) >= 2 => WellPosed

\* C10, reached: the Woodbury update has solved with a positive definite d
\* and returned for an ensemble of 2 particles with zero spread
C10_WellPosedReached ==
    /\ WoodburySystem
    /\ WellPosed
    /\ Particles(WESRF) = 2
    /\ In(WESRF).z_forecast[1] = In(WESRF).z_forecast[2]
    /\ Out(WESRF).d_matrix = Eye(2)

-----------------------------------------------------------------------------
\* the square-root and Woodbury updates made with warnings enabled that have
\* decomposed M
WarningCalls ==
    {c \in Made \cap {ESRF, WESRF} :
        filters[c].warn /\ Out(c).eigval_m # <<>>}

\* no eigenvalue of M is above 1 by more than the tolerance
WithinTolerance(c) ==
    \A i \in DOMAIN Out(c).eigval_m :
        ~Gt(Out(c).eigval_m[i], Add(One, Tolerance))

=============================================================================
